---- MODULE Spec2Model ----
(***************************************************************************)
(* Risk-constrained arbitrage decision engine.                             *)
(*                                                                         *)
(*   RiskManager        src/test/risk-management.test.js  (lines 8-230)    *)
(*   ArbitrageDetector  src/test/arbitrage.test.js        (lines 9-75)     *)
(*   TradingSystem      src/unnamed/part_012              (lines 11-249)   *)
(*                                                                         *)
(* Numbers.  The program computes with JavaScript numbers.  A JavaScript   *)
(* value that takes part in arithmetic is modelled as a record             *)
(*   [k |-> "num", v |-> n]   a finite number                              *)
(*   [k |-> "NaN", v |-> 0]   the result of arithmetic on a missing field  *)
(*   [k |-> "undefined", ..]  a field the object does not have             *)
(* Money and prices are fixed-point, in mills (1/1000 of a dollar), and    *)
(* the arithmetic on them is exact; fractions of the configuration         *)
(* (0.2, 0.01, 0.98) are per-mille integers; exchange rates are integers   *)
(* in units of 1/1000 and their triple products in units of 10^-9.         *)
(* Timestamps (Date.now) and the log are not modelled: nothing reads them. *)
(* What a call returns is a function of the state it is called in and of   *)
(* its arguments: the ...Result operators.  The variable last records      *)
(* which call was made last, on what, and what it reported.                *)
(***************************************************************************)
EXTENDS Integers, Sequences, FiniteSets, TLC

VARIABLES
    balance,          \* RiskManager.balance           (JS number, mills)
    dailyLoss,        \* RiskManager.dailyLoss         (integer, mills)
    openPositions,    \* RiskManager.openPositions     (sequence of positions)
    tradeHistory,     \* RiskManager.tradeHistory      (sequence of positions)
    sysTradeHistory,  \* TradingSystem.tradeHistory    (sequence of ids)
    timers,           \* pending setTimeout callbacks, in firing order
    isRunning,        \* TradingSystem.isRunning
    cycle,            \* the runCycle call in flight: where it waits, its locals
    priceFeed,        \* ArbitrageScanner.priceFeed      (rates by pair)
    last              \* the last call: name, argument, success, what it returned

vars == <<balance, dailyLoss, openPositions, tradeHistory, sysTradeHistory,
          timers, isRunning, cycle, priceFeed, last>>

rmVars == <<balance, dailyLoss, openPositions, tradeHistory>>

(***************************************************************************)
(* Bounds of the model.                                                    *)
(***************************************************************************)
\* positions ever opened in one behaviour (open + closed)
MaxTrades == 2

(***************************************************************************)
(* JavaScript values.                                                      *)
(***************************************************************************)
N(x) == [k |-> "num", v |-> x]
NaN == [k |-> "NaN", v |-> 0]
Undefined == [k |-> "undefined", v |-> 0]

IsNum(a) == a.k = "num"

\* a || b truthiness: undefined, NaN and 0 are falsy
Truthy(a) == IsNum(a) /\ a.v # 0

Add(a, b) == IF IsNum(a) /\ IsNum(b) THEN N(a.v + b.v) ELSE NaN
Sub(a, b) == IF IsNum(a) /\ IsNum(b) THEN N(a.v - b.v) ELSE NaN
Mul(a, b) == IF IsNum(a) /\ IsNum(b) THEN N(a.v * b.v) ELSE NaN

\* a * (p / 1000), rounded down to a mill
MulFrac(a, p) ==
    IF IsNum(a) THEN N((a.v \div 1000) * p + ((a.v % 1000) * p) \div 1000) ELSE NaN

RECURSIVE Decimals(_, _, _)
\* the first n decimals of r / b, as an integer, for 0 <= r < b
Decimals(r, b, n) ==
    IF n = 0 THEN 0
    ELSE ((r * 10) \div b) * (IF n = 3 THEN 100 ELSE IF n = 2 THEN 10 ELSE 1)
           + Decimals((r * 10) % b, b, n - 1)

\* (a / b) * 1000 rounded down, for a >= 0 and b > 0
PerMille(a, b) == (a \div b) * 1000 + Decimals(a % b, b, 3)

\* comparisons are false as soon as one side is not a number
Lt(a, b) == IsNum(a) /\ IsNum(b) /\ a.v < b.v
Gt(a, b) == Lt(b, a)
Ge(a, b) == IsNum(a) /\ IsNum(b) /\ a.v >= b.v

RECURSIVE Gcd(_, _)
Gcd(x, y) == IF y = 0 THEN x ELSE Gcd(y, x % y)

\* a > b * (p / 1000) and a < b * (p / 1000), exactly (p / 1000 in lowest terms)
GtFrac(a, b, p) ==
    IsNum(a) /\ IsNum(b) /\ a.v * (1000 \div Gcd(1000, p)) > b.v * (p \div Gcd(1000, p))
LtFrac(a, b, p) ==
    IsNum(a) /\ IsNum(b) /\ a.v * (1000 \div Gcd(1000, p)) < b.v * (p \div Gcd(1000, p))

Mills(dollars) == dollars * 1000

Min2(x, y) == IF x <= y THEN x ELSE y

\* Math.min: NaN as soon as one argument is
MathMin3(a, b, c) ==
    IF IsNum(a) /\ IsNum(b) /\ IsNum(c) THEN N(Min2(a.v, Min2(b.v, c.v))) ELSE NaN

\* Math.floor to a whole dollar, on mills
FloorDollar(a) == IF IsNum(a) THEN N((a.v \div 1000) * 1000) ELSE NaN

(***************************************************************************)
(* RiskManager configuration (the defaults, which the tests also pass).    *)
(***************************************************************************)
startingBalance == 1000
maxLossPerTrade == 10
maxDailyLoss == 20
\* 0.2, per mille
maxPositionSize == 200
\* 0.2, per mille
reserveFund == 200
\* 0.02, per mille
maxStopLoss == 20
maxOpenPositions == 5
\* 0.98, per mille
emergencyFill == 980

(***************************************************************************)
(* RiskManager.calculatePositionSize                                       *)
(***************************************************************************)
\* the gate with > for >=
DailyLossLimitExceeded == dailyLoss > Mills(maxDailyLoss)

\* if (this.dailyLoss >= this.maxDailyLoss)
DailyLossLimitReached == dailyLoss >= Mills(maxDailyLoss)

\* the risk cap as maxLossPerTrade * stopLoss * 10000: growing with the stop
calculatePositionSizeRiskTimesStop(opportunity) ==
    IF DailyLossLimitReached
    THEN [size |-> N(0), reason |-> "Daily loss limit reached", allowed |-> FALSE,
          availableCapital |-> Undefined]
    ELSE
      LET availableCapital == MulFrac(balance, 1000 - reserveFund)
          stop == IF Truthy(opportunity.stopLoss) THEN opportunity.stopLoss.v ELSE 10
          maxByRisk == N(Mills(maxLossPerTrade) * stop * 10)
          maxByCapital == MulFrac(availableCapital, maxPositionSize)
          maxByBalance == availableCapital
          positionSize == MathMin3(maxByRisk, maxByCapital, maxByBalance)
      IN IF Lt(positionSize, N(Mills(1)))
         THEN [size |-> N(0), reason |-> "Position too small", allowed |-> FALSE,
               availableCapital |-> Undefined]
         ELSE [size |-> FloorDollar(positionSize), reason |-> "", allowed |-> TRUE,
               availableCapital |-> availableCapital]

\* sizing against the whole available capital: maxByCapital without the
\* maxPositionSize factor
calculatePositionSizeWholeCapital(opportunity) ==
    IF DailyLossLimitReached
    THEN [size |-> N(0), reason |-> "Daily loss limit reached", allowed |-> FALSE,
          availableCapital |-> Undefined]
    ELSE
      LET availableCapital == MulFrac(balance, 1000 - reserveFund)
          stop == IF Truthy(opportunity.stopLoss) THEN opportunity.stopLoss.v ELSE 10
          maxByRisk == N((Mills(maxLossPerTrade) * 1000) \div stop)
          maxByCapital == availableCapital
          maxByBalance == availableCapital
          positionSize == MathMin3(maxByRisk, maxByCapital, maxByBalance)
      IN IF Lt(positionSize, N(Mills(1)))
         THEN [size |-> N(0), reason |-> "Position too small", allowed |-> FALSE,
               availableCapital |-> Undefined]
         ELSE [size |-> FloorDollar(positionSize), reason |-> "", allowed |-> TRUE,
               availableCapital |-> availableCapital]

calculatePositionSize(opportunity) ==
    IF DailyLossLimitReached
    THEN [size |-> N(0), reason |-> "Daily loss limit reached", allowed |-> FALSE,
          availableCapital |-> Undefined]
    ELSE
      LET availableCapital == MulFrac(balance, 1000 - reserveFund)
          stop == IF Truthy(opportunity.stopLoss) THEN opportunity.stopLoss.v ELSE 10
          maxByRisk == N((Mills(maxLossPerTrade) * 1000) \div stop)
          maxByCapital == MulFrac(availableCapital, maxPositionSize)
          maxByBalance == availableCapital
          positionSize == MathMin3(maxByRisk, maxByCapital, maxByBalance)
      IN IF Lt(positionSize, N(Mills(1)))
         THEN [size |-> N(0), reason |-> "Position too small", allowed |-> FALSE,
               availableCapital |-> Undefined]
         ELSE [size |-> FloorDollar(positionSize), reason |-> "", allowed |-> TRUE,
               availableCapital |-> availableCapital]

(***************************************************************************)
(* RiskManager.calculateRiskScore, in 1/1000 of a point                    *)
(***************************************************************************)
\* Math.min(30, (value / balance) * 150)
PositionRisk(trade) ==
    IF ~IsNum(trade.value) \/ ~IsNum(balance) THEN NaN
    ELSE IF balance.v = 0
         THEN (IF trade.value.v > 0 THEN N(30000)
               ELSE IF trade.value.v = 0 THEN NaN ELSE N(-30000))
    ELSE IF balance.v > 0
         THEN (IF trade.value.v * 150 >= 30 * balance.v THEN N(30000)
               ELSE IF trade.value.v >= 0
                    THEN N(PerMille(trade.value.v * 150, balance.v))
               ELSE N(0 - PerMille((0 - trade.value.v) * 150, balance.v)))
    ELSE (IF trade.value.v < 0
          THEN N(Min2(30000, PerMille((0 - trade.value.v) * 150, 0 - balance.v)))
          ELSE N(0 - PerMille(trade.value.v * 150, 0 - balance.v)))

\* Math.min(30, (dailyLoss / maxDailyLoss) * 30)
DailyLossRisk ==
    IF dailyLoss >= Mills(maxDailyLoss) THEN 30000
    ELSE (dailyLoss * 30000) \div Mills(maxDailyLoss)

calculateRiskScore(trade) ==
    LET volatility == IF Truthy(trade.volatility) THEN trade.volatility.v ELSE 100
        score == Add(Add(PositionRisk(trade), N(DailyLossRisk)),
                     N(Len(openPositions) * 4000 + volatility * 200))
    IN IF IsNum(score) THEN N(Min2(100000, score.v)) ELSE NaN

(***************************************************************************)
(* RiskManager.validateTrade                                               *)
(***************************************************************************)
\* the limit with > for >=
MoreThanMaxOpenPositions == Len(openPositions) > maxOpenPositions

\* if (this.openPositions.length >= 5)
TooManyOpenPositions == Len(openPositions) >= maxOpenPositions

\* returning at the first check that fails
validateTradeFirstError(trade) ==
    LET balanceAfterTrade == Sub(balance, trade.value)
        errors ==
            IF GtFrac(trade.value, balance, maxPositionSize)
            THEN <<"Position size exceeds maximum">>
            ELSE IF dailyLoss >= Mills(maxDailyLoss)
            THEN <<"Daily loss limit reached">>
            ELSE IF LtFrac(balanceAfterTrade, balance, reserveFund)
            THEN <<"Would breach reserve fund">>
            ELSE IF ~Truthy(trade.stopLoss) \/ trade.stopLoss.v > maxStopLoss
            THEN <<"Stop loss not set or too high">>
            ELSE IF TooManyOpenPositions
            THEN <<"Too many open positions">>
            ELSE <<>>
    IN [valid |-> Len(errors) = 0, errors |-> errors,
        riskScore |-> calculateRiskScore(trade)]

validateTrade(trade) ==
    LET e1 == IF GtFrac(trade.value, balance, maxPositionSize)
              THEN <<"Position size exceeds maximum">> ELSE <<>>
        e2 == IF dailyLoss >= Mills(maxDailyLoss)
              THEN <<"Daily loss limit reached">> ELSE <<>>
        balanceAfterTrade == Sub(balance, trade.value)
        e3 == IF LtFrac(balanceAfterTrade, balance, reserveFund)
              THEN <<"Would breach reserve fund">> ELSE <<>>
        e4 == IF ~Truthy(trade.stopLoss) \/ trade.stopLoss.v > maxStopLoss
              THEN <<"Stop loss not set or too high">> ELSE <<>>
        e5 == IF TooManyOpenPositions
              THEN <<"Too many open positions">> ELSE <<>>
        errors == e1 \o e2 \o e3 \o e4 \o e5
    IN [valid |-> Len(errors) = 0, errors |-> errors,
        riskScore |-> calculateRiskScore(trade)]

(***************************************************************************)
(* Positions.  A trade object carries value, entryPrice, quantity,         *)
(* stopLoss and volatility; an executed trade adds id and status; a        *)
(* closed one adds exitPrice and profit.                                   *)
(***************************************************************************)
Trade(value, entryPrice, quantity, stopLoss) ==
    [value |-> value, entryPrice |-> entryPrice, quantity |-> quantity,
     stopLoss |-> stopLoss, volatility |-> Undefined]

\* { ...trade, id, status: 'open' }
OpenPosition(trade, id) ==
    [id |-> id, status |-> "open", value |-> trade.value,
     entryPrice |-> trade.entryPrice, quantity |-> trade.quantity,
     stopLoss |-> trade.stopLoss, volatility |-> trade.volatility,
     exitPrice |-> Undefined, profit |-> Undefined]

\* { ...trade, exitPrice, profit, status: 'closed' }
ClosedPosition(pos, exitPrice, profit) ==
    [pos EXCEPT !.status = "closed", !.exitPrice = exitPrice, !.profit = profit]

\* { ...position, status: 'emergency_closed' }
EmergencyClosed(pos) == [pos EXCEPT !.status = "emergency_closed"]

\* -1 taken as an index from the end: the last position when there is none
FindIndexOrLast(tradeId) ==
    IF \E i \in 1..Len(openPositions) : openPositions[i].id = tradeId
    THEN CHOOSE i \in 1..Len(openPositions) :
            /\ openPositions[i].id = tradeId
            /\ \A j \in 1..(i - 1) : openPositions[j].id # tradeId
    ELSE Len(openPositions)

\* openPositions.findIndex(t => t.id === tradeId); 0 when there is none
FindIndex(tradeId) ==
    IF \E i \in 1..Len(openPositions) : openPositions[i].id = tradeId
    THEN CHOOSE i \in 1..Len(openPositions) :
            /\ openPositions[i].id = tradeId
            /\ \A j \in 1..(i - 1) : openPositions[j].id # tradeId
    ELSE 0

RemoveAt(s, i) == SubSeq(s, 1, i - 1) \o SubSeq(s, i + 1, Len(s))

\* (exitPrice - trade.entryPrice) * trade.quantity
Profit(pos, exitPrice) == Mul(Sub(exitPrice, pos.entryPrice), pos.quantity)

(***************************************************************************)
(* ArbitrageDetector.  Rates are in 1/1000, profits in 10^-9.              *)
(***************************************************************************)
\* 0.001, in 10^-9
profitThreshold == 1000000
\* 0.001 per trade, in 10^-9
fees == 1000000
\* ArbitrageDetector.maxPositionSize, dollars
detectorMaxPositionSize == 200

\* marketData[pair] || 1.0
extractPrices(marketData) ==
    [pair1 |-> IF Truthy(marketData.p1) THEN marketData.p1.v ELSE 1000,
     pair2 |-> IF Truthy(marketData.p2) THEN marketData.p2.v ELSE 1000,
     pair3 |-> IF Truthy(marketData.p3) THEN marketData.p3.v ELSE 1000]

\* the linear scale capped at 1 instead of 0.95
calculateConfidenceCappedAtOne(profit) ==
    IF profit <= 0 THEN 0
    ELSE IF profit >= 10000000 THEN 1000000000
    ELSE Min2(1000000000, profit * 100)

calculateConfidence(profit) ==
    IF profit <= 0 THEN 0
    ELSE IF profit >= 10000000 THEN 950000000
    ELSE Min2(950000000, profit * 100)

\* charging two trades' fees for the three of the path
calculateTriangularArbitrageTwoFees(prices) ==
    LET crossRate == prices.pair1 * prices.pair2 * prices.pair3
        arbitrageProfit == crossRate - 1000000000
        profitAfterFees == arbitrageProfit - fees * 2
    IN [crossRate |-> crossRate, grossProfit |-> arbitrageProfit,
        netProfit |-> profitAfterFees,
        isProfitable |-> profitAfterFees > profitThreshold,
        confidence |-> calculateConfidence(profitAfterFees)]

\* profitable from the threshold on: >= for >
calculateTriangularArbitrageAtThreshold(prices) ==
    LET crossRate == prices.pair1 * prices.pair2 * prices.pair3
        arbitrageProfit == crossRate - 1000000000
        profitAfterFees == arbitrageProfit - fees * 3
    IN [crossRate |-> crossRate, grossProfit |-> arbitrageProfit,
        netProfit |-> profitAfterFees,
        isProfitable |-> profitAfterFees >= profitThreshold,
        confidence |-> calculateConfidence(profitAfterFees)]

calculateTriangularArbitrage(prices) ==
    LET crossRate == prices.pair1 * prices.pair2 * prices.pair3
        arbitrageProfit == crossRate - 1000000000
        profitAfterFees == arbitrageProfit - fees * 3
    IN [crossRate |-> crossRate, grossProfit |-> arbitrageProfit,
        netProfit |-> profitAfterFees,
        isProfitable |-> profitAfterFees > profitThreshold,
        confidence |-> calculateConfidence(profitAfterFees)]

\* ArbitrageDetector.calculatePositionSize:
\* Math.floor(maxPositionSize * Math.min(1, profit * 10))
detectorPositionSize(profitPercentage) ==
    IF profitPercentage >= 100000000 THEN detectorMaxPositionSize
    ELSE (profitPercentage * detectorMaxPositionSize) \div 100000000

detectOpportunity(marketData) ==
    LET arbitrage == calculateTriangularArbitrage(extractPrices(marketData))
    IN IF arbitrage.isProfitable
       THEN [profit |-> arbitrage.netProfit, confidence |-> arbitrage.confidence,
             action |-> "EXECUTE",
             positionSize |-> detectorPositionSize(arbitrage.netProfit),
             reason |-> ""]
       ELSE [profit |-> arbitrage.netProfit, confidence |-> 0,
             action |-> "MONITOR", positionSize |-> 0,
             reason |-> "Below profit threshold"]

(***************************************************************************)
(* ArbitrageScanner.  priceFeed holds a rate (1/1000) for each pair of the *)
(* path USDC -> USDT -> DAI -> USDC that it has a key for, and others      *)
(* counts its keys for other pairs.  Profits are in 10^-9.                 *)
(***************************************************************************)
\* private priceFeed: Record<string, number> = {}
EmptyFeed == [p1 |-> Undefined, p2 |-> Undefined, p3 |-> Undefined, others |-> 0]

\* Object.keys(this.priceFeed).length
Keys(feed) ==
    Cardinality({i \in 1..3 : <<feed.p1, feed.p2, feed.p3>>[i] # Undefined})
      + feed.others

\* pairs.map(pair => this.priceFeed[pair] || 1.0): params.pairs is the first
\* pairs of the path, in order
FeedPrices(pairs) ==
    [i \in 1..pairs |->
        LET rate == <<priceFeed.p1, priceFeed.p2, priceFeed.p3>>[i]
        IN IF Truthy(rate) THEN rate.v ELSE 1000]

\* ArbitrageScanner.calculateTriangularArbitrage
scannerTriangularArbitrage(pairs) ==
    LET prices == FeedPrices(pairs)
    IN IF Len(prices) < 3 THEN 0
       ELSE LET crossRate == prices[1] * prices[2] * prices[3]
                difference == crossRate - 1000000000
            IN IF difference < 0 THEN 0 - difference ELSE difference

\* what scan returns; the id and the timestamp of an opportunity are the
\* clock's and are left out; estimatedGain is in mills, to within a mill
scan(params) ==
    IF params.pairs >= 3 /\ Keys(priceFeed) >= 3
    THEN LET profit == scannerTriangularArbitrage(params.pairs)
         IN IF profit > params.minProfit
            THEN << [profit |-> profit,
                     estimatedGain |->
                         ((profit \div 1000) * params.maxPositionSize) \div 1000,
                     positionSize |-> params.maxPositionSize,
                     confidence |-> 900] >>
            ELSE <<>>
    ELSE <<>>

(***************************************************************************)
(* Inputs.                                                                 *)
(***************************************************************************)
\* trade objects handed to RiskManager.executeTrade
TradeInputs ==
    { Trade(N(Mills(100)), N(1000), N(100), N(10)),     \* $100: 100 units at 1.000
      Trade(N(Mills(100)), N(900), N(8000), N(10)),     \* quantity above the value
      Trade(N(Mills(850)), Undefined, Undefined, Undefined) } \* beyond the limits

\* exit prices handed to RiskManager.closeTrade, mills
ExitPrices == {800, 810, 950}

\* closeTrade returns before it reads exitPrice when no open position has the
\* id, so one price stands for all of them there
ExitPricesFor(tradeId) ==
    IF FindIndex(tradeId) = 0 THEN {1000} ELSE ExitPrices

\* snapshots fetchMarketData can draw, each rate within 0.005 of its centre:
\* parity, and the profitable 1.003 x 1.005 x 1.002
MarketInputs ==
    { [p1 |-> N(1000), p2 |-> N(1000), p3 |-> N(1000)],
      [p1 |-> N(1003), p2 |-> N(1005), p3 |-> N(1002)] }

\* Math.random() in completeTrade, per mille
RandomDraws == {0, 500}

\* Math.random().toString(36).substr(2, 9): nine random characters, taken to
\* differ from every id drawn before; the k-th position gets id k.  Positions
\* that were open before the behaviour starts carry ids below zero.
TradesOpened ==
    Cardinality({i \in 1..Len(openPositions) : openPositions[i].id > 0})
      + Cardinality({i \in 1..Len(tradeHistory) : tradeHistory[i].id > 0})

NewIds == {TradesOpened + 1}

\* no runCycle call is in flight
IdleCycle ==
    [pc |-> "idle",
     marketData |-> [p1 |-> Undefined, p2 |-> Undefined, p3 |-> Undefined],
     opportunity |-> [profit |-> 0, confidence |-> 0, action |-> "",
                      positionSize |-> 0, reason |-> ""],
     size |-> Undefined, checked |-> <<>>, outcome |-> ""]

(***************************************************************************)
(* Initial state: new TradingSystem(config), new RiskManager(config.risk)  *)
(***************************************************************************)
Init ==
    /\ balance = N(Mills(startingBalance))
    /\ dailyLoss = 0
    /\ openPositions = <<>>
    /\ tradeHistory = <<>>
    /\ sysTradeHistory = <<>>
    /\ timers = <<>>
    /\ isRunning = FALSE
    /\ cycle = IdleCycle
    /\ priceFeed = EmptyFeed
    /\ last = [op |-> "new", arg |-> 0, ok |-> TRUE, ret |-> 0]

(***************************************************************************)
(* RiskManager.executeTrade(trade); id is the Math.random() draw           *)
(***************************************************************************)
\* what the call returns
executeTradeResult(trade, id) ==
    LET validation == validateTrade(trade)
    IN IF ~validation.valid
       THEN [success |-> FALSE, errors |-> validation.errors, trade |-> 0,
             newBalance |-> Undefined]
       ELSE [success |-> TRUE, errors |-> <<>>, trade |-> id,
             newBalance |-> Sub(balance, trade.value)]

\* charging the balance before looking at the validation
executeTradeChargedFirst(trade, id) ==
    /\ balance' = Sub(balance, trade.value)
    /\ openPositions' = IF validateTrade(trade).valid
                        THEN Append(openPositions, OpenPosition(trade, id))
                        ELSE openPositions
    /\ UNCHANGED <<dailyLoss, tradeHistory>>

\* what the call does to the RiskManager
executeTrade(trade, id) ==
    LET validation == validateTrade(trade)
    IN IF ~validation.valid
       THEN UNCHANGED rmVars
       ELSE /\ openPositions' = Append(openPositions, OpenPosition(trade, id))
            /\ balance' = Sub(balance, trade.value)
            /\ UNCHANGED <<dailyLoss, tradeHistory>>

ExecuteTrade(trade, id) ==
    /\ TradesOpened < MaxTrades \/ ~validateTrade(trade).valid
    /\ executeTrade(trade, id)
    /\ last' = [op |-> "executeTrade", arg |-> trade,
                ok |-> executeTradeResult(trade, id).success,
                ret |-> executeTradeResult(trade, id).errors]
    /\ UNCHANGED <<sysTradeHistory, timers, isRunning, cycle, priceFeed>>

(***************************************************************************)
(* RiskManager.closeTrade(tradeId, exitPrice)                              *)
(***************************************************************************)
closeTradeResult(tradeId, exitPrice) ==
    LET tradeIndex == FindIndex(tradeId)
    IN IF tradeIndex = 0
       THEN [success |-> FALSE, error |-> "Trade not found", profit |-> Undefined,
             newBalance |-> Undefined, dailyLoss |-> Undefined]
       ELSE LET trade == openPositions[tradeIndex]
                profit == Profit(trade, exitPrice)
            IN [success |-> TRUE, error |-> "", profit |-> profit,
                newBalance |-> Add(balance, Add(trade.value, profit)),
                dailyLoss |-> N(IF Lt(profit, N(0)) THEN dailyLoss - profit.v
                                ELSE dailyLoss)]

\* crediting the profit and forgetting the stake
closeTradeProfitOnly(tradeId, exitPrice) ==
    LET tradeIndex == FindIndex(tradeId)
    IN IF tradeIndex = 0
       THEN UNCHANGED rmVars
       ELSE LET trade == openPositions[tradeIndex]
                profit == Profit(trade, exitPrice)
            IN /\ dailyLoss' = IF Lt(profit, N(0)) THEN dailyLoss - profit.v
                               ELSE dailyLoss
               /\ balance' = Add(balance, profit)
               /\ openPositions' = RemoveAt(openPositions, tradeIndex)
               /\ tradeHistory' =
                      Append(tradeHistory, ClosedPosition(trade, exitPrice, profit))

\* netting every profit against the day's losses
closeTradeNettingProfit(tradeId, exitPrice) ==
    LET tradeIndex == FindIndex(tradeId)
    IN IF tradeIndex = 0
       THEN UNCHANGED rmVars
       ELSE LET trade == openPositions[tradeIndex]
                profit == Profit(trade, exitPrice)
            IN /\ dailyLoss' = IF IsNum(profit) THEN dailyLoss - profit.v
                               ELSE dailyLoss
               /\ balance' = Add(balance, Add(trade.value, profit))
               /\ openPositions' = RemoveAt(openPositions, tradeIndex)
               /\ tradeHistory' =
                      Append(tradeHistory, ClosedPosition(trade, exitPrice, profit))

\* recording the close and leaving the position in openPositions
closeTradeNotSpliced(tradeId, exitPrice) ==
    LET tradeIndex == FindIndex(tradeId)
    IN IF tradeIndex = 0
       THEN UNCHANGED rmVars
       ELSE LET trade == openPositions[tradeIndex]
                profit == Profit(trade, exitPrice)
            IN /\ dailyLoss' = IF Lt(profit, N(0)) THEN dailyLoss - profit.v
                               ELSE dailyLoss
               /\ balance' = Add(balance, Add(trade.value, profit))
               /\ openPositions' = openPositions
               /\ tradeHistory' =
                      Append(tradeHistory, ClosedPosition(trade, exitPrice, profit))

closeTrade(tradeId, exitPrice) ==
    LET tradeIndex == FindIndex(tradeId)
    IN IF tradeIndex = 0
       THEN UNCHANGED rmVars
       ELSE LET trade == openPositions[tradeIndex]
                profit == Profit(trade, exitPrice)
            IN /\ dailyLoss' = IF Lt(profit, N(0)) THEN dailyLoss - profit.v
                               ELSE dailyLoss
               /\ balance' = Add(balance, Add(trade.value, profit))
               /\ openPositions' = RemoveAt(openPositions, tradeIndex)
               /\ tradeHistory' =
                      Append(tradeHistory, ClosedPosition(trade, exitPrice, profit))

CloseTrade(tradeId, exitPrice) ==
    /\ closeTrade(tradeId, N(exitPrice))
    /\ last' = [op |-> "closeTrade", arg |-> tradeId,
                ok |-> closeTradeResult(tradeId, N(exitPrice)).success,
                ret |-> closeTradeResult(tradeId, N(exitPrice)).error]
    /\ UNCHANGED <<sysTradeHistory, timers, isRunning, cycle, priceFeed>>

(***************************************************************************)
(* RiskManager.resetDailyLimits()                                          *)
(***************************************************************************)
ResetDailyLimits ==
    /\ dailyLoss' = 0
    /\ last' = [op |-> "resetDailyLimits", arg |-> 0, ok |-> TRUE, ret |-> 0]
    /\ UNCHANGED <<balance, openPositions, tradeHistory, sysTradeHistory,
                   timers, isRunning, cycle, priceFeed>>

(***************************************************************************)
(* RiskManager.emergencyStop()                                             *)
(***************************************************************************)
RECURSIVE SumFills(_, _)
\* balance += position.value * 0.98, for each position in turn
SumFills(start, positions) ==
    IF positions = <<>> THEN start
    ELSE SumFills(Add(start, MulFrac(positions[1].value, emergencyFill)),
                  Tail(positions))

emergencyStopResult ==
    [closedPositions |-> Len(openPositions),
     finalBalance |-> SumFills(balance, openPositions), safeMode |-> TRUE]

\* removing positions from the array that is being walked: every other
\* position is passed over
emergencyStopSplicing ==
    LET odd == {i \in 1..Len(openPositions) : i % 2 = 1}
        closedTrades == [k \in 1..Cardinality(odd) |->
                            EmergencyClosed(openPositions[2 * k - 1])]
    IN /\ balance' = SumFills(balance, closedTrades)
       /\ openPositions' = [k \in 1..(Len(openPositions) - Cardinality(odd)) |->
                               openPositions[2 * k]]
       /\ tradeHistory' = tradeHistory \o closedTrades
       /\ UNCHANGED dailyLoss

\* booking the 2% slippage of every liquidated position as a daily loss
emergencyStopBookingLoss ==
    LET closedTrades == [i \in 1..Len(openPositions) |->
                            EmergencyClosed(openPositions[i])]
        filled == SumFills(balance, openPositions)
        total == SumFills(N(0), openPositions)
    IN /\ balance' = filled
       /\ openPositions' = <<>>
       /\ tradeHistory' = tradeHistory \o closedTrades
       /\ dailyLoss' = dailyLoss + (IF IsNum(total) THEN (total.v * 20) \div 980 ELSE 0)

emergencyStop ==
    LET closedTrades == [i \in 1..Len(openPositions) |->
                            EmergencyClosed(openPositions[i])]
    IN /\ balance' = SumFills(balance, openPositions)
       /\ openPositions' = <<>>
       /\ tradeHistory' = tradeHistory \o closedTrades
       /\ UNCHANGED dailyLoss

EmergencyStop ==
    /\ emergencyStop
    /\ last' = [op |-> "emergencyStop", arg |-> 0,
                ok |-> emergencyStopResult.safeMode,
                ret |-> emergencyStopResult.closedPositions]
    /\ UNCHANGED <<sysTradeHistory, timers, isRunning, cycle, priceFeed>>

(***************************************************************************)
(* TradingSystem.runCycle(): fetchMarketData, analyzeOpportunity and       *)
(* TradingSystem.executeTrade(opportunity).  Nothing in it waits for a     *)
(* timer, so the cycle is one step.                                        *)
(***************************************************************************)
\* the opportunity and the trade object that TradingSystem.executeTrade builds
CycleOpportunity == [stopLoss |-> N(10)]

CycleTrade(size) == Trade(size, Undefined, Undefined, N(10))

\* going to the risk manager whatever the detector's action
CycleOutcomeAnyAction(opportunity) ==
    LET positionCalc == calculatePositionSize(CycleOpportunity)
    IN IF ~positionCalc.allowed THEN "Trade blocked by risk management"
       ELSE IF ~validateTrade(CycleTrade(positionCalc.size)).valid
            THEN "Trade validation failed"
       ELSE IF ~executeTradeResult(CycleTrade(positionCalc.size), 0).success
            THEN "Trade execution failed"
       ELSE "Trade executed successfully"

\* the message TradingSystem.executeTrade logs last: how far it got
CycleOutcome(opportunity) ==
    IF opportunity.action # "EXECUTE" THEN "No trade execution required"
    ELSE LET positionCalc == calculatePositionSize(CycleOpportunity)
         IN IF ~positionCalc.allowed THEN "Trade blocked by risk management"
            ELSE IF ~validateTrade(CycleTrade(positionCalc.size)).valid
                 THEN "Trade validation failed"
            ELSE IF ~executeTradeResult(CycleTrade(positionCalc.size), 0).success
                 THEN "Trade execution failed"
            ELSE "Trade executed successfully"

\* what runCycle returns as trade: the id of the position, 0 for null
runCycleResult(marketData, id) ==
    LET opportunity == detectOpportunity(marketData)
    IN [success |-> TRUE, action |-> opportunity.action,
        trade |-> IF CycleOutcome(opportunity) = "Trade executed successfully"
                  THEN id ELSE 0]

RunCycle(marketData, id) ==
    LET opportunity == detectOpportunity(marketData)
        outcome == CycleOutcome(opportunity)
        positionCalc == calculatePositionSize(CycleOpportunity)
    IN /\ TradesOpened < MaxTrades \/ outcome # "Trade executed successfully"
       /\ IF outcome = "Trade executed successfully"
          THEN /\ executeTrade(CycleTrade(positionCalc.size), id)
               /\ sysTradeHistory' = Append(sysTradeHistory, id)
               /\ timers' = Append(timers, [id |-> id, profit |-> opportunity.profit])
          ELSE UNCHANGED <<rmVars, sysTradeHistory, timers>>
       /\ last' = [op |-> "runCycle", arg |-> marketData,
                   ok |-> runCycleResult(marketData, id).trade # 0, ret |-> outcome]
       /\ UNCHANGED <<isRunning, cycle, priceFeed>>

(***************************************************************************)
(* The setTimeout callback: TradingSystem.completeTrade(id, profit).       *)
(* Timers of equal delay fire in the order they were set.                  *)
(***************************************************************************)
\* 1 + expectedProfit * (0.95 + random * 0.1), in mills
SettlementPrice(expectedProfit, random) ==
    LET actualProfit == (expectedProfit \div 1000) * (950 + random \div 10)
    IN 1000 + actualProfit \div 1000000

\* a callback that fires and closes nothing
CompleteTradeLost(random) ==
    /\ timers # <<>>
    /\ cycle.pc = "idle"
    /\ timers' = Tail(timers)
    /\ last' = [op |-> "completeTrade", arg |-> Head(timers).id, ok |-> FALSE,
                ret |-> "Trade not found"]
    /\ UNCHANGED <<rmVars, sysTradeHistory, isRunning, cycle, priceFeed>>

CompleteTrade(random) ==
    /\ timers # <<>>
    /\ cycle.pc = "idle"
    /\ closeTrade(Head(timers).id, N(SettlementPrice(Head(timers).profit, random)))
    /\ timers' = Tail(timers)
    /\ last' = [op |-> "completeTrade", arg |-> Head(timers).id,
                ok |-> closeTradeResult(Head(timers).id,
                           N(SettlementPrice(Head(timers).profit, random))).success,
                ret |-> closeTradeResult(Head(timers).id,
                           N(SettlementPrice(Head(timers).profit, random))).error]
    /\ UNCHANGED <<sysTradeHistory, isRunning, cycle, priceFeed>>

(***************************************************************************)
(* TradingSystem.stop()                                                    *)
(***************************************************************************)
Stop ==
    /\ IF Len(openPositions) > 0 THEN emergencyStop ELSE UNCHANGED rmVars
    /\ isRunning' = FALSE
    /\ last' = [op |-> "stop", arg |-> 0, ok |-> TRUE,
                ret |-> IF Len(openPositions) > 0
                        THEN emergencyStopResult.closedPositions ELSE 0]
    /\ UNCHANGED <<sysTradeHistory, timers, cycle, priceFeed>>

Next ==
    \/ \E trade \in TradeInputs, id \in NewIds : ExecuteTrade(trade, id)
    \/ \E id \in 1..MaxTrades : \E exitPrice \in ExitPricesFor(id) :
           CloseTrade(id, exitPrice)
    \/ ResetDailyLimits
    \/ EmergencyStop
    \/ \E marketData \in MarketInputs, id \in NewIds : RunCycle(marketData, id)
    \/ \E random \in RandomDraws : CompleteTrade(random)
    \/ Stop

Spec == Init /\ [][Next]_vars

\* The system after four executeTrade calls of $100 each: one position short
\* of the limit of validateTrade.
InitNearPositionLimit ==
    /\ balance = N(Mills(startingBalance) - (maxOpenPositions - 1) * Mills(100))
    /\ dailyLoss = 0
    /\ openPositions =
           [i \in 1..(maxOpenPositions - 1) |->
               OpenPosition(Trade(N(Mills(100)), N(1000), N(100), N(10)), 0 - i)]
    /\ tradeHistory = <<>>
    /\ sysTradeHistory = <<>>
    /\ timers = <<>>
    /\ isRunning = FALSE
    /\ cycle = IdleCycle
    /\ priceFeed = EmptyFeed
    /\ last = [op |-> "executeTrade", arg |-> Trade(N(Mills(100)), N(1000), N(100), N(10)),
               ok |-> TRUE, ret |-> <<>>]

SpecNearPositionLimit == InitNearPositionLimit /\ [][Next]_vars

(***************************************************************************)
(* runCycle as the event loop runs it.  An async function runs without     *)
(* interruption up to its next await; other callers get their turn only    *)
(* there, and a timer callback only when no call is in flight.             *)
(***************************************************************************)
\* the awaits with risk-manager calls between them, were executeTrade to await
\* the risk manager
AwaitPointsInExecuteTrade == {"fetched", "analyzed", "sized", "validated"}

\* where a cycle waits: await this.fetchMarketData(), await
\* this.analyzeOpportunity(marketData); TradingSystem.executeTrade awaits nothing
AwaitPoints == {"fetched", "analyzed"}

\* one call of the cycle, from the program point c.pc to the next one
MicroStep(c) ==
    IF c.pc = "fetched"
    THEN [c EXCEPT !.pc = "analyzed",
                   !.opportunity = detectOpportunity(c.marketData)]
    ELSE IF c.pc = "analyzed"
    THEN IF c.opportunity.action # "EXECUTE"
         THEN [c EXCEPT !.pc = "return", !.outcome = "No trade execution required"]
         ELSE IF ~calculatePositionSize(CycleOpportunity).allowed
         THEN [c EXCEPT !.pc = "return",
                        !.outcome = "Trade blocked by risk management"]
         ELSE [c EXCEPT !.pc = "sized",
                        !.size = calculatePositionSize(CycleOpportunity).size,
                        !.checked = <<balance, dailyLoss, openPositions>>]
    ELSE IF c.pc = "sized"
    THEN IF ~validateTrade(CycleTrade(c.size)).valid
         THEN [c EXCEPT !.pc = "return", !.outcome = "Trade validation failed"]
         ELSE [c EXCEPT !.pc = "validated"]
    ELSE IF ~executeTradeResult(CycleTrade(c.size), 0).success
         THEN [c EXCEPT !.pc = "return", !.outcome = "Trade execution failed"]
         ELSE [c EXCEPT !.pc = "return", !.outcome = "Trade executed successfully"]

RECURSIVE Advance(_)
\* the cycle run on from c.pc until it waits or returns
Advance(c) ==
    IF MicroStep(c).pc \in AwaitPoints \cup {"return"}
    THEN MicroStep(c)
    ELSE Advance(MicroStep(c))

\* runCycle is called: fetchMarketData runs and the call waits
StartCycle(marketData) ==
    /\ cycle.pc = "idle"
    /\ cycle' = [IdleCycle EXCEPT !.pc = "fetched", !.marketData = marketData]
    /\ UNCHANGED <<rmVars, sysTradeHistory, timers, isRunning, last, priceFeed>>

\* the call in flight is resumed
ResumeCycle(id) ==
    /\ cycle.pc # "idle"
    /\ \E c \in {Advance(cycle)} :
         IF c.pc = "return"
         THEN /\ TradesOpened < MaxTrades
                   \/ c.outcome # "Trade executed successfully"
              /\ IF c.outcome = "Trade executed successfully"
                 THEN /\ executeTrade(CycleTrade(c.size), id)
                      /\ sysTradeHistory' = Append(sysTradeHistory, id)
                      /\ timers' = Append(timers, [id |-> id,
                                                   profit |-> c.opportunity.profit])
                 ELSE UNCHANGED <<rmVars, sysTradeHistory, timers>>
              /\ last' = [op |-> "runCycle", arg |-> c.marketData,
                          ok |-> c.outcome = "Trade executed successfully",
                          ret |-> c.outcome]
              /\ cycle' = [IdleCycle EXCEPT !.checked = c.checked]
         ELSE /\ cycle' = c
              /\ UNCHANGED <<rmVars, sysTradeHistory, timers, last>>
    /\ UNCHANGED <<isRunning, priceFeed>>

\* the TradingSystem driven through runCycle, its timers, stop and the risk
\* manager's emergencyStop and resetDailyLimits
NextAwaits ==
    \/ \E marketData \in MarketInputs : StartCycle(marketData)
    \/ \E id \in NewIds : ResumeCycle(id)
    \/ \E random \in RandomDraws : CompleteTrade(random)
    \/ EmergencyStop
    \/ ResetDailyLimits
    \/ Stop

SpecAwaits == Init /\ [][NextAwaits]_vars

\* the TradingSystem driven through whole cycles, its timers and stop, with
\* the risk manager's closeTrade, emergencyStop and resetDailyLimits
NextTradingSystem ==
    \/ \E marketData \in MarketInputs, id \in NewIds : RunCycle(marketData, id)
    \/ \E random \in RandomDraws : CompleteTrade(random)
    \/ \E id \in 1..MaxTrades : \E exitPrice \in ExitPricesFor(id) :
           CloseTrade(id, exitPrice)
    \/ EmergencyStop
    \/ ResetDailyLimits
    \/ Stop

\* every scheduled timer callback is eventually run
SpecTimersFire ==
    /\ Init /\ [][NextTradingSystem]_vars
    /\ WF_vars(\E random \in RandomDraws : CompleteTrade(random))

(***************************************************************************)
(* The RiskManager with its ids as executeTrade makes them:                *)
(* Math.random().toString(36).substr(2, 9).  A draw is written by its      *)
(* digits to base 36 after the point, as toString(36) prints them.         *)
(***************************************************************************)
\* draws of Math.random(): 0, 0.5, and two neighbours just above 0.5
RandomFractions ==
    { <<>>, <<18>>,
      <<18, 0, 0, 0, 0, 0, 0, 0, 0, 0, 15>>,
      <<18, 0, 0, 0, 0, 0, 0, 0, 0, 0, 29>> }

\* .substr(2, 9): at most nine characters after "0."
Substr9(digits) ==
    IF Len(digits) <= 9 THEN digits ELSE SubSeq(digits, 1, 9)

\* the id strings these draws give: "", "i" and "i00000000"; an id is named
\* by the place of its string in this list
IdStrings == << <<>>, <<18>>, <<18, 0, 0, 0, 0, 0, 0, 0, 0>> >>

RandomId(digits) ==
    CHOOSE k \in 1..Len(IdStrings) : IdStrings[k] = Substr9(digits)

NextRandomIds ==
    \/ \E trade \in TradeInputs, digits \in RandomFractions :
           ExecuteTrade(trade, RandomId(digits))
    \/ \E id \in 1..Len(IdStrings) : \E exitPrice \in ExitPricesFor(id) :
           CloseTrade(id, exitPrice)
    \/ EmergencyStop
    \/ ResetDailyLimits

SpecRandomIds == Init /\ [][NextRandomIds]_vars

(***************************************************************************)
(* The RiskManager with calculatePositionSize as a call of its own, and    *)
(* closes at prices that take the balance far from where it started.       *)
(***************************************************************************)
\* opportunities by stop loss: none, 0.5%, 1%, 2%, 4%
SizingInputs ==
    {[stopLoss |-> Undefined], [stopLoss |-> N(5)], [stopLoss |-> N(10)],
     [stopLoss |-> N(20)], [stopLoss |-> N(40)]}

\* exits at 0.775 and 0.776 (the 0.9-entry position leaves a balance of 0
\* and of 8), at 0.95, and at 2 (the 0.9-entry position returns 8800)
SizingExitPrices == {775, 776, 950, 2000}

CalculatePositionSize(opportunity) ==
    /\ last' = [op |-> "calculatePositionSize", arg |-> opportunity,
                ok |-> calculatePositionSize(opportunity).allowed,
                ret |-> calculatePositionSize(opportunity).size]
    /\ UNCHANGED <<rmVars, sysTradeHistory, timers, isRunning, cycle, priceFeed>>

NextSizing ==
    \/ \E opportunity \in SizingInputs : CalculatePositionSize(opportunity)
    \/ \E trade \in TradeInputs, id \in NewIds : ExecuteTrade(trade, id)
    \/ \E id \in 1..MaxTrades :
           \E exitPrice \in IF FindIndex(id) = 0 THEN {1000} ELSE SizingExitPrices :
               CloseTrade(id, exitPrice)
    \/ ResetDailyLimits

SpecSizing == Init /\ [][NextSizing]_vars

(***************************************************************************)
(* RiskManager.getPortfolioRisk() and calculateOverallRiskLevel.  A        *)
(* quotient is kept as numerator and denominator; x / 0 is Infinity,       *)
(* -Infinity or NaN as in JavaScript.                                      *)
(***************************************************************************)
Div(a, b) ==
    IF ~IsNum(a) \/ ~IsNum(b) THEN [k |-> "NaN", n |-> 0, d |-> 1]
    ELSE IF b.v # 0 THEN [k |-> "ratio", n |-> a.v, d |-> b.v]
    ELSE IF a.v > 0 THEN [k |-> "Infinity", n |-> 0, d |-> 1]
    ELSE IF a.v < 0 THEN [k |-> "-Infinity", n |-> 0, d |-> 1]
    ELSE [k |-> "NaN", n |-> 0, d |-> 1]

\* r < a / b for a literal a / b with b > 0; false for NaN
RatioLt(r, a, b) ==
    \/ r.k = "-Infinity"
    \/ r.k = "ratio" /\ r.d > 0 /\ r.n * b < a * r.d
    \/ r.k = "ratio" /\ r.d < 0 /\ r.n * b > a * r.d

\* a >= b * (p / 1000); false when either is NaN
GeFrac(a, b, p) == IsNum(a) /\ IsNum(b) /\ ~LtFrac(a, b, p)

RECURSIVE TotalExposure(_)
\* openPositions.reduce((sum, pos) => sum + pos.value, 0)
TotalExposure(positions) ==
    IF positions = <<>> THEN N(0)
    ELSE Add(TotalExposure(SubSeq(positions, 1, Len(positions) - 1)),
             positions[Len(positions)].value)

\* the bands closed on the right: <= for <
calculateOverallRiskLevelClosed(exposureRatio) ==
    IF RatioLt(exposureRatio, 1, 5)
         \/ (exposureRatio.k = "ratio" /\ exposureRatio.n * 5 = exposureRatio.d)
    THEN "LOW"
    ELSE IF RatioLt(exposureRatio, 1, 2)
              \/ (exposureRatio.k = "ratio" /\ exposureRatio.n * 2 = exposureRatio.d)
    THEN "MEDIUM"
    ELSE IF RatioLt(exposureRatio, 4, 5)
              \/ (exposureRatio.k = "ratio" /\ exposureRatio.n * 5 = 4 * exposureRatio.d)
    THEN "HIGH"
    ELSE "CRITICAL"

calculateOverallRiskLevel(exposureRatio) ==
    IF RatioLt(exposureRatio, 1, 5) THEN "LOW"
    ELSE IF RatioLt(exposureRatio, 1, 2) THEN "MEDIUM"
    ELSE IF RatioLt(exposureRatio, 4, 5) THEN "HIGH"
    ELSE "CRITICAL"

getPortfolioRisk ==
    LET totalExposure == TotalExposure(openPositions)
        exposureRatio == Div(totalExposure, Add(balance, totalExposure))
    IN [totalExposure |-> totalExposure,
        exposureRatio |-> exposureRatio,
        openPositions |-> Len(openPositions),
        dailyLossUsed |-> Div(N(dailyLoss), N(Mills(maxDailyLoss))),
        reserveIntact |-> GeFrac(balance, balance, reserveFund),
        riskLevel |-> calculateOverallRiskLevel(exposureRatio)]

GetPortfolioRisk ==
    /\ last' = [op |-> "getPortfolioRisk", arg |-> 0, ok |-> TRUE,
                ret |-> getPortfolioRisk]
    /\ UNCHANGED <<rmVars, sysTradeHistory, timers, isRunning, cycle, priceFeed>>

\* the $100 position of the tests and one of ten times its value in quantity
PortfolioTrades ==
    { Trade(N(Mills(100)), N(1000), N(100), N(10)),
      Trade(N(Mills(100)), N(1000), N(1000), N(10)) }

\* exits that leave, after the larger position, balances of 25, 26, 100 and
\* 101 beside an open $100 position
PortfolioExitPrices == {125, 126, 200, 201}

NextPortfolioRisk ==
    \/ GetPortfolioRisk
    \/ \E trade \in PortfolioTrades, id \in NewIds : ExecuteTrade(trade, id)
    \/ \E id \in 1..MaxTrades :
           \E exitPrice \in IF FindIndex(id) = 0 THEN {1000} ELSE PortfolioExitPrices :
               CloseTrade(id, exitPrice)
    \/ ResetDailyLimits
    \/ EmergencyStop

SpecPortfolioRisk == Init /\ [][NextPortfolioRisk]_vars

(***************************************************************************)
(* The RiskManager with validateTrade as a call of its own, on trades that *)
(* carry a volatility estimate.                                            *)
(***************************************************************************)
\* the trades of the risk score tests (volatility 1% and 5%) and one with a
\* volatility of 20%
RiskScoreInputs ==
    { [Trade(N(Mills(50)), N(1000), N(50), N(5)) EXCEPT !.volatility = N(10)],
      [Trade(N(Mills(190)), N(1000), N(190), N(20)) EXCEPT !.volatility = N(50)],
      [Trade(N(Mills(100)), N(1000), N(100), N(10)) EXCEPT !.volatility = N(200)] }

ValidateTrade(trade) ==
    /\ last' = [op |-> "validateTrade", arg |-> trade,
                ok |-> validateTrade(trade).valid,
                ret |-> validateTrade(trade)]
    /\ UNCHANGED <<rmVars, sysTradeHistory, timers, isRunning, cycle, priceFeed>>

NextRiskScore ==
    \/ \E trade \in RiskScoreInputs : ValidateTrade(trade)
    \/ \E trade \in TradeInputs, id \in NewIds : ExecuteTrade(trade, id)
    \/ \E id \in 1..MaxTrades : \E exitPrice \in ExitPricesFor(id) :
           CloseTrade(id, exitPrice)
    \/ ResetDailyLimits

SpecRiskScore == Init /\ [][NextRiskScore]_vars

(***************************************************************************)
(* The ArbitrageDetector called on its own.  It keeps no state: the calls  *)
(* differ by their input and their result only.                            *)
(***************************************************************************)
\* rates: 0.8 and 1.25 (product 1 with parity), and parity -0.2% .. +0.4%
DetectorRates == {800, 998, 1000, 1002, 1004, 1250}

DetectorInputs ==
    {[p1 |-> N(r1), p2 |-> N(r2), p3 |-> N(r3)] :
        r1 \in DetectorRates, r2 \in DetectorRates, r3 \in DetectorRates}

\* profits handed to calculateConfidence, in 10^-9: -0.001, 0, 0.0001, 0.005,
\* 0.0094, 0.0095, 0.0096, 0.01, 0.02 and 1.0
ProfitInputs ==
    {-1000000, 0, 100000, 5000000, 9400000, 9500000, 9600000, 10000000,
     20000000, 1000000000}

DetectOpportunity(marketData) ==
    /\ last' = [op |-> "detectOpportunity", arg |-> marketData,
                ok |-> detectOpportunity(marketData).action = "EXECUTE",
                ret |-> [arbitrage |->
                             calculateTriangularArbitrage(extractPrices(marketData)),
                         opportunity |-> detectOpportunity(marketData)]]
    /\ UNCHANGED <<rmVars, sysTradeHistory, timers, isRunning, cycle, priceFeed>>

CalculateConfidence(profit) ==
    /\ last' = [op |-> "calculateConfidence", arg |-> profit, ok |-> TRUE,
                ret |-> calculateConfidence(profit)]
    /\ UNCHANGED <<rmVars, sysTradeHistory, timers, isRunning, cycle, priceFeed>>

NextDetector ==
    \/ \E marketData \in DetectorInputs : DetectOpportunity(marketData)
    \/ \E profit \in ProfitInputs : CalculateConfidence(profit)

SpecDetector == Init /\ [][NextDetector]_vars

(***************************************************************************)
(* The detector on snapshots that lack a pair or carry a rate that is not  *)
(* positive.                                                               *)
(***************************************************************************)
\* a rate of a snapshot: absent, 0, -1.004, parity, 1.002 and 1.004
SnapshotRates == {Undefined, N(0), N(-1004), N(1000), N(1002), N(1004)}

SnapshotInputs ==
    {[p1 |-> r1, p2 |-> r2, p3 |-> r3] :
        r1 \in SnapshotRates, r2 \in SnapshotRates, r3 \in SnapshotRates}

NextSnapshots ==
    \E marketData \in SnapshotInputs : DetectOpportunity(marketData)

SpecSnapshots == Init /\ [][NextSnapshots]_vars

(***************************************************************************)
(* ArbitrageDetector.calculatePositionSize called on its own.              *)
(***************************************************************************)
\* profits handed to calculatePositionSize, in 10^-9: -0.5% .. 1.07% in steps
\* of 0.01%, and 10%, 20% and 100%
PositionSizeProfits ==
    {p * 100000 : p \in -50..107} \cup {100000000, 200000000, 1000000000}

DetectorCalculatePositionSize(profitPercentage) ==
    /\ last' = [op |-> "detector.calculatePositionSize", arg |-> profitPercentage,
                ok |-> TRUE, ret |-> detectorPositionSize(profitPercentage)]
    /\ UNCHANGED <<rmVars, sysTradeHistory, timers, isRunning, cycle, priceFeed>>

NextDetectorSizing ==
    \E profitPercentage \in PositionSizeProfits :
        DetectorCalculatePositionSize(profitPercentage)

SpecDetectorSizing == Init /\ [][NextDetectorSizing]_vars

(***************************************************************************)
(* The ArbitrageScanner: setPriceFeed and scan.                            *)
(***************************************************************************)
\* rates of a feed: no key, 0.99, 0.999, parity, 1.001, 1.002 and 1.01
FeedRates == {Undefined, N(990), N(999), N(1000), N(1001), N(1002), N(1010)}

FeedInputs ==
    {[p1 |-> r1, p2 |-> r2, p3 |-> r3, others |-> k] :
        r1 \in FeedRates, r2 \in FeedRates, r3 \in FeedRates, k \in {0, 1}}

\* scan parameters: two or three pairs of the path, minProfit 0.1%, $1000
ScanInputs ==
    {[pairs |-> n, minProfit |-> 1000000, maxPositionSize |-> 1000] : n \in {2, 3}}

SetPriceFeed(prices) ==
    /\ priceFeed' = prices
    /\ last' = [op |-> "setPriceFeed", arg |-> prices, ok |-> TRUE, ret |-> 0]
    /\ UNCHANGED <<rmVars, sysTradeHistory, timers, isRunning, cycle>>

Scan(params) ==
    /\ last' = [op |-> "scan", arg |-> params, ok |-> scan(params) # <<>>,
                ret |-> scan(params)]
    /\ UNCHANGED <<rmVars, sysTradeHistory, timers, isRunning, cycle, priceFeed>>

NextScanner ==
    \/ \E prices \in FeedInputs : SetPriceFeed(prices)
    \/ \E params \in ScanInputs : Scan(params)

SpecScanner == Init /\ [][NextScanner]_vars

(***************************************************************************)
(* Properties.                                                             *)
(***************************************************************************)
\* startingBalance * reserveFund, mills
ReserveAmount == (Mills(startingBalance) * reserveFund) \div 1000

\* === as JavaScript has it: NaN equals nothing
StrictEq(a, b) == IsNum(a) /\ IsNum(b) /\ a.v = b.v

\* the step is the return of a successful executeTrade, direct or in a cycle
TradeExecuted == last'.op \in {"executeTrade", "runCycle"} /\ last'.ok

\* C1: immediately after every executeTrade that succeeds, the balance is not
\* below startingBalance * reserveFraction (200).
C1_ReserveInvariant ==
    [][TradeExecuted => ~Lt(balance', N(ReserveAmount))]_vars

\* opportunities of every stop loss, and of none
OpportunityInputs ==
    {[stopLoss |-> Undefined], [stopLoss |-> N(5)], [stopLoss |-> N(10)],
     [stopLoss |-> N(20)]}

SizingRejected(reason) ==
    \A opportunity \in OpportunityInputs :
        LET positionCalc == calculatePositionSize(opportunity)
        IN /\ ~positionCalc.allowed
           /\ positionCalc.size = N(0)
           /\ positionCalc.reason = reason

\* C2: from the moment dailyLoss >= maxDailyLoss until resetDailyLimits,
\* every calculatePositionSize returns allowed = false, size 0 and 'Daily loss
\* limit reached', and no decision cycle opens a position.
C2_DailyLossGate ==
    [][dailyLoss >= Mills(maxDailyLoss) =>
          /\ SizingRejected("Daily loss limit reached")
          /\ last'.op = "runCycle" => (~last'.ok /\ openPositions' = openPositions)
          /\ last'.op # "resetDailyLimits" => dailyLoss' >= Mills(maxDailyLoss)]_vars

\* a cycle has just been turned away by the gate alone: the loss is exactly at
\* the limit and the balance would have carried a position
C2_Witness ==
    /\ dailyLoss = Mills(maxDailyLoss)
    /\ last.op = "runCycle" /\ ~last.ok
    /\ last.ret = "Trade blocked by risk management"
    /\ Ge(balance, N(Mills(900)))
    /\ Len(openPositions) < maxOpenPositions

\* C3: when validateTrade reports the trade invalid, executeTrade returns
\* success = false with exactly validateTrade's errors and leaves balance,
\* openPositions, dailyLoss and tradeHistory as they were.
C3_ExecuteTradeAllOrNothing ==
    [][(last'.op = "executeTrade" /\ ~validateTrade(last'.arg).valid) =>
          /\ ~last'.ok
          /\ last'.ret = validateTrade(last'.arg).errors
          /\ UNCHANGED rmVars]_vars

\* a rejected executeTrade with more than one error, with a position open
C3_Witness ==
    /\ last.op = "executeTrade" /\ ~last.ok
    /\ Len(last.ret) >= 2
    /\ Len(openPositions) >= 1

RECURSIVE SumOver(_, _, _)
\* the sum of the field over the positions of the given status
SumOver(positions, status, field) ==
    IF positions = <<>> THEN N(0)
    ELSE IF positions[1].status = status
         THEN Add(positions[1][field], SumOver(Tail(positions), status, field))
         ELSE SumOver(Tail(positions), status, field)

\* 2% of the value
Slippage(total) == MulFrac(total, 1000 - emergencyFill)

Conserved ==
    StrictEq(Add(balance, SumOver(openPositions, "open", "value")),
             Sub(Add(N(Mills(startingBalance)),
                     SumOver(tradeHistory, "closed", "profit")),
                 Slippage(SumOver(tradeHistory, "emergency_closed", "value"))))

\* C4: in every reachable state, balance + the value of the open positions =
\* startingBalance + the profit of the closed trades - 2% of the value of the
\* emergency-closed positions.
C4_CapitalConservation == Conserved

\* the same while no position without entryPrice and quantity has been closed
ConservedWhileNumeric == IsNum(balance) => Conserved

\* C5: closeTrade on an open position computes profit = (exitPrice -
\* entryPrice) * quantity, adds |profit| to dailyLoss when profit < 0 and
\* leaves dailyLoss alone otherwise, adds value + profit to balance, removes
\* the position from openPositions and appends it, closed, to tradeHistory.
C5_CloseTrade ==
    [][(last'.op \in {"closeTrade", "completeTrade"} /\ last'.ok) =>
          \E i \in 1..Len(openPositions) :
              LET position == openPositions[i]
                  closed == tradeHistory'[Len(tradeHistory')]
                  numeric == IsNum(position.entryPrice) /\ IsNum(position.quantity)
                  profit == IF numeric
                            THEN N((closed.exitPrice.v - position.entryPrice.v)
                                     * position.quantity.v)
                            ELSE NaN
              IN /\ position.id = last'.arg
                 /\ \A j \in 1..(i - 1) : openPositions[j].id # last'.arg
                 /\ IsNum(closed.exitPrice)
                 /\ closed = [position EXCEPT !.status = "closed",
                                              !.exitPrice = closed.exitPrice,
                                              !.profit = profit]
                 /\ tradeHistory' = Append(tradeHistory, closed)
                 /\ openPositions' = [j \in 1..(Len(openPositions) - 1) |->
                                        IF j < i THEN openPositions[j]
                                        ELSE openPositions[j + 1]]
                 /\ dailyLoss' = IF numeric /\ profit.v < 0
                                 THEN dailyLoss + (0 - profit.v) ELSE dailyLoss
                 /\ balance' = IF numeric /\ IsNum(balance) /\ IsNum(position.value)
                               THEN N(balance.v + position.value.v + profit.v)
                               ELSE NaN]_vars

\* a $100 trade has just been closed at -$5: dailyLoss went from 0 to 5 and
\* the balance from 900 to 995
C5_Witness ==
    /\ last.op = "closeTrade" /\ last.ok
    /\ Len(tradeHistory) = 1
    /\ tradeHistory[1].value = N(Mills(100))
    /\ tradeHistory[1].profit = N(0 - Mills(5))
    /\ dailyLoss = Mills(5)
    /\ balance = N(Mills(995))
    /\ openPositions = <<>>

\* C6: after emergencyStop, openPositions is empty, every position that was
\* open is in tradeHistory as emergency_closed, and closedPositions is the
\* number of positions that were open.
C6_EmergencyStopComplete ==
    [][(last'.op = "emergencyStop" \/ (last'.op = "stop" /\ Len(openPositions) > 0)) =>
          /\ openPositions' = <<>>
          /\ Len(tradeHistory') = Len(tradeHistory) + Len(openPositions)
          /\ SubSeq(tradeHistory', 1, Len(tradeHistory)) = tradeHistory
          /\ \A i \in 1..Len(openPositions) :
                 tradeHistory'[Len(tradeHistory) + i] =
                     [openPositions[i] EXCEPT !.status = "emergency_closed"]
          /\ last'.ret = Len(openPositions)]_vars

\* emergencyStop has just liquidated two positions
C6_Witness ==
    /\ last.op = "emergencyStop" /\ last.ret = 2
    /\ openPositions = <<>>
    /\ Len(tradeHistory) = 2
    /\ \A i \in 1..2 : tradeHistory[i].status = "emergency_closed"

\* C7: with dailyLoss = 19 and maxDailyLoss = 20, sizing a profitable
\* opportunity is rejected with 'Daily loss limit reached', so a cycle that
\* detects an EXECUTE opportunity returns no trade.
C7_RejectedNearLimit ==
    [][(dailyLoss = Mills(19) /\ last'.op = "runCycle"
          /\ detectOpportunity(last'.arg).action = "EXECUTE") =>
          /\ ~calculatePositionSize(CycleOpportunity).allowed
          /\ calculatePositionSize(CycleOpportunity).reason = "Daily loss limit reached"
          /\ ~last'.ok
          /\ UNCHANGED rmVars]_vars

\* C8: in every reachable state dailyLoss <= maxDailyLoss.
C8_DailyLossNeverExceeded == dailyLoss <= Mills(maxDailyLoss)

\* C9: the balance is never negative.
C9_BalanceNeverNegative == ~Lt(balance, N(0))

\* the message of the first check of the cycle that fails, computed from the
\* state the cycle starts in
FirstFailure(marketData) ==
    IF detectOpportunity(marketData).action # "EXECUTE"
    THEN "No trade execution required"
    ELSE IF ~calculatePositionSize(CycleOpportunity).allowed
         THEN "Trade blocked by risk management"
    ELSE IF ~validateTrade(CycleTrade(calculatePositionSize(CycleOpportunity).size)).valid
         THEN "Trade validation failed"
    ELSE ""

\* C10: a cycle opens a position only when the opportunity is EXECUTE,
\* calculatePositionSize allows it and validateTrade finds it valid, checked in
\* this order; otherwise it returns no trade and leaves balance, dailyLoss,
\* openPositions and tradeHistory as they were.
C10_CycleOpensOnlyWhenAccepted ==
    [][last'.op = "runCycle" =>
          IF FirstFailure(last'.arg) = ""
          THEN /\ last'.ok
               /\ Len(openPositions') = Len(openPositions) + 1
               /\ openPositions'[Len(openPositions')].value =
                      calculatePositionSize(CycleOpportunity).size
               /\ SubSeq(openPositions', 1, Len(openPositions)) = openPositions
          ELSE /\ ~last'.ok
               /\ last'.ret = FirstFailure(last'.arg)
               /\ UNCHANGED rmVars]_vars

\* a cycle on a profitable snapshot got past sizing and has just been turned
\* away by validateTrade, five positions being open
C10_Witness ==
    /\ last.op = "runCycle" /\ ~last.ok
    /\ detectOpportunity(last.arg).action = "EXECUTE"
    /\ last.ret = "Trade validation failed"
    /\ Len(openPositions) = maxOpenPositions

\* C11: when completeTrade settles a position opened by the decision cycle,
\* closeTrade computes a numeric profit from the position's entryPrice and
\* quantity, credits balance with value + profit and adds any loss to
\* dailyLoss, so the next cycle sees a numeric, updated balance.
C11_SettlementIsNumeric ==
    [][(last'.op = "completeTrade" /\ last'.ok /\ IsNum(balance)) =>
          LET closed == tradeHistory'[Len(tradeHistory')]
          IN /\ IsNum(closed.entryPrice) /\ IsNum(closed.quantity)
             /\ IsNum(closed.profit)
             /\ balance' = Add(balance, Add(closed.value, closed.profit))
             /\ IsNum(balance')
             /\ dailyLoss' = IF closed.profit.v < 0
                             THEN dailyLoss - closed.profit.v ELSE dailyLoss
             /\ IsNum(calculatePositionSize(CycleOpportunity).size)']_vars

\* C12: within one decision cycle calculatePositionSize, validateTrade and
\* riskManager.executeTrade run without any other step between them: the
\* cycle is never seen waiting between sizing and execution, and the balance,
\* dailyLoss and openPositions that sizing read are those executeTrade changes.
C12_CheckThenMutateAtomic ==
    [][/\ cycle'.pc \in {"idle", "fetched", "analyzed"}
       /\ (cycle.pc # "idle" /\ cycle'.pc = "idle" /\ last'.ok) =>
              cycle'.checked = <<balance, dailyLoss, openPositions>>]_vars

\* a cycle has just opened a second position while the first one's
\* settlement timer was pending
C12_Witness ==
    /\ cycle.pc = "idle" /\ cycle.checked # <<>>
    /\ last.op = "runCycle" /\ last.ok
    /\ Len(openPositions) = 2
    /\ Len(timers) = 2

\* the ids of the positions in a sequence
Ids(positions) == {positions[i].id : i \in 1..Len(positions)}

\* C13: closeTrade for an id that no open position has (never opened, already
\* closed, or liquidated by emergencyStop while its settlement timer was
\* pending) returns failure 'Trade not found' and leaves balance, dailyLoss,
\* openPositions and tradeHistory unchanged, so no position is credited back
\* twice: it enters tradeHistory at most once.
C13_CloseTradeNotFound ==
    [][/\ (last'.op \in {"closeTrade", "completeTrade"}
             /\ last'.arg \notin Ids(openPositions)) =>
              /\ ~last'.ok
              /\ last'.ret = "Trade not found"
              /\ UNCHANGED rmVars
       /\ \A i, j \in 1..Len(tradeHistory') :
              tradeHistory'[i].id = tradeHistory'[j].id => i = j]_vars

\* the settlement timer of a position that emergencyStop had already
\* liquidated has just fired, and found nothing
C13_Witness ==
    /\ last.op = "completeTrade" /\ ~last.ok
    /\ \E i \in 1..Len(tradeHistory) :
           /\ tradeHistory[i].id = last.arg
           /\ tradeHistory[i].status = "emergency_closed"
    /\ IsNum(balance)

\* the ids TradingSystem.executeTrade has pushed to its tradeHistory
CycleIds == {sysTradeHistory[i] : i \in 1..Len(sysTradeHistory)}

\* C14: provided scheduled timers eventually fire, every position opened by a
\* decision cycle eventually leaves openPositions, through completeTrade or
\* through emergencyStop.
C14_CyclePositionsEventuallyClose ==
    \A id \in 1..MaxTrades :
        (id \in CycleIds /\ id \in Ids(openPositions))
            ~> (id \notin Ids(openPositions))

\* the settlement timer of a cycle's position has just closed it
C14_Witness ==
    /\ last.op = "completeTrade" /\ last.ok
    /\ last.arg \in CycleIds
    /\ last.arg \notin Ids(openPositions)
    /\ last.arg \in Ids(tradeHistory)

\* the entries of a list
Entries(list) == {list[i] : i \in 1..Len(list)}

\* C15: openPositions never holds more than 5 positions, and executeTrade
\* fails with 'Too many open positions' whenever 5 positions are open.
C15_AtMostFiveOpen ==
    [][/\ Len(openPositions') <= maxOpenPositions
       /\ (last'.op = "executeTrade" /\ Len(openPositions) = maxOpenPositions) =>
              /\ ~last'.ok
              /\ "Too many open positions" \in Entries(last'.ret)
              /\ UNCHANGED rmVars]_vars

\* with five positions open, a trade that passes every other check has just
\* been refused
C15_Witness ==
    /\ last.op = "executeTrade" /\ ~last.ok
    /\ last.ret = <<"Too many open positions">>
    /\ Len(openPositions) = maxOpenPositions

\* C16: no two positions in openPositions share an id, so closeTrade(id)
\* closes exactly the position whose handle the caller received.
C16_OpenIdsUnique ==
    \A i, j \in 1..Len(openPositions) :
        openPositions[i].id = openPositions[j].id => i = j

\* C17: every executed position is at all times in exactly one of
\* openPositions (with status open) and tradeHistory (with status closed or
\* emergency_closed): an execution puts a new id into openPositions, no step
\* drops a position from both lists or keeps it in both, a position in
\* tradeHistory stays there, and an emergency_closed entry is appended only
\* by emergencyStop (also when stop() calls it).
C17_PositionLifecycle ==
    [][/\ Ids(openPositions') \cap Ids(tradeHistory') = {}
       /\ Cardinality(Ids(openPositions') \cup Ids(tradeHistory')) =
              Len(openPositions') + Len(tradeHistory')
       /\ \A i \in 1..Len(openPositions') : openPositions'[i].status = "open"
       /\ \A i \in 1..Len(tradeHistory') :
              tradeHistory'[i].status \in {"closed", "emergency_closed"}
       /\ TradeExecuted =>
              Ids(openPositions') \ (Ids(openPositions) \cup Ids(tradeHistory)) # {}
       /\ Ids(openPositions) \subseteq Ids(openPositions') \cup Ids(tradeHistory')
       /\ Ids(tradeHistory) \subseteq Ids(tradeHistory')
       /\ \A i \in 1..Len(tradeHistory') :
              (i > Len(tradeHistory) /\ tradeHistory'[i].status = "emergency_closed")
                  => last'.op \in {"emergencyStop", "stop"}]_vars

\* one position closed by closeTrade and another liquidated by emergencyStop
C17_Witness ==
    /\ \E i \in 1..Len(tradeHistory) : tradeHistory[i].status = "closed"
    /\ \E i \in 1..Len(tradeHistory) : tradeHistory[i].status = "emergency_closed"

\* the entry a successful close has just appended to tradeHistory
JustClosed == tradeHistory'[Len(tradeHistory')]

\* C18: dailyLoss never decreases except by resetDailyLimits, which sets it
\* to exactly 0; executeTrade, emergencyStop (also from stop()) and a cycle
\* leave it unchanged, and so does a close whose profit is not negative,
\* while a losing close raises it.
C18_DailyLossMonotonic ==
    [][/\ last'.op # "resetDailyLimits" => dailyLoss' >= dailyLoss
       /\ last'.op = "resetDailyLimits" => dailyLoss' = 0
       /\ last'.op \in {"executeTrade", "emergencyStop", "stop", "runCycle"} =>
              dailyLoss' = dailyLoss
       /\ (last'.op \in {"closeTrade", "completeTrade"} /\ last'.ok) =>
              IF Lt(JustClosed.profit, N(0))
              THEN dailyLoss' > dailyLoss
              ELSE dailyLoss' = dailyLoss]_vars

\* a profitable close after a loss was booked
C18_Witness ==
    /\ last.op = "closeTrade" /\ last.ok
    /\ dailyLoss > 0
    /\ Gt(tradeHistory[Len(tradeHistory)].profit, N(0))

\* trades put to validateTrade: the executed ones, a stop loss of 3%, a stop
\* loss of 0, and a position of exactly 20% of the starting balance
ValidationInputs ==
    TradeInputs \cup
        { Trade(N(Mills(100)), N(1000), N(100), N(30)),
          Trade(N(Mills(850)), N(1000), N(850), N(0)),
          Trade(N(Mills(200)), N(1000), N(200), N(20)) }

\* the five checks, each from the trade and the RiskManager's fields alone
CheckMessages ==
    <<"Position size exceeds maximum", "Daily loss limit reached",
      "Would breach reserve fund", "Stop loss not set or too high",
      "Too many open positions">>

CheckViolated(k, trade) ==
    CASE k = 1 -> IsNum(balance) /\ trade.value.v * 5 > balance.v
      [] k = 2 -> dailyLoss >= Mills(maxDailyLoss)
      [] k = 3 -> IsNum(balance) /\ 5 * (balance.v - trade.value.v) < balance.v
      [] k = 4 -> \/ trade.stopLoss.k # "num"
                  \/ trade.stopLoss.v = 0
                  \/ trade.stopLoss.v > maxStopLoss
      [] k = 5 -> Len(openPositions) >= maxOpenPositions

OneEntryPerViolatedCheck(trade, errors) ==
    /\ \A k \in 1..5 : CheckViolated(k, trade) <=> CheckMessages[k] \in Entries(errors)
    /\ Len(errors) = Cardinality({k \in 1..5 : CheckViolated(k, trade)})

\* C19: validateTrade's errors hold exactly one entry for each of the five
\* checks that is violated, whatever the other checks find, and valid is
\* true exactly when errors is empty; an executeTrade that was refused (it
\* changes nothing) has returned that list.
C19_ChecksIndependent ==
    /\ \A trade \in ValidationInputs :
           LET validation == validateTrade(trade)
           IN /\ OneEntryPerViolatedCheck(trade, validation.errors)
              /\ validation.valid <=> validation.errors = <<>>
    /\ (last.op = "executeTrade" /\ ~last.ok) =>
           /\ last.ret # <<>>
           /\ OneEntryPerViolatedCheck(last.arg, last.ret)

\* an executeTrade turned away by four checks at once
C19_Witness ==
    /\ last.op = "executeTrade" /\ ~last.ok
    /\ Len(last.ret) = 4

\* balance * (1 - reserve), and m, the least of the three caps; NaN when the
\* balance is
AvailableCapital == MulFrac(balance, 1000 - reserveFund)

LeastCap(opportunity) ==
    IF IsNum(balance) /\ IsNum(opportunity.stopLoss) /\ opportunity.stopLoss.v # 0
    THEN N(Min2((Mills(maxLossPerTrade) * 1000) \div opportunity.stopLoss.v,
                Min2(AvailableCapital.v \div 5, AvailableCapital.v)))
    ELSE NaN

\* C20: while dailyLoss < maxDailyLoss, calculatePositionSize returns
\* allowed = true with size = floor(m) when m >= 1, m being the least of the
\* three caps, and allowed = false, size 0, 'Position too small' otherwise;
\* an allowed size is a whole number >= 1 and at most 20% of the available
\* capital.
C20_SizingFormula ==
    dailyLoss < Mills(maxDailyLoss) =>
        \A opportunity \in {o \in OpportunityInputs : IsNum(o.stopLoss)} :
            LET positionCalc == calculatePositionSize(opportunity)
                m == LeastCap(opportunity)
            IN /\ IF Ge(m, N(Mills(1)))
                  THEN /\ positionCalc.allowed
                       /\ positionCalc.size = FloorDollar(m)
                  ELSE /\ ~positionCalc.allowed
                       /\ positionCalc.size = N(0)
                       /\ positionCalc.reason = "Position too small"
               /\ positionCalc.allowed =>
                      /\ IsNum(positionCalc.size)
                      /\ positionCalc.size.v % Mills(1) = 0
                      /\ positionCalc.size.v >= Mills(1)
                      /\ positionCalc.size.v * 5 <= AvailableCapital.v

\* the same for the states whose balance is a number
C20_SizingFormulaWhileNumeric == IsNum(balance) => C20_SizingFormula

\* the size calculatePositionSize returns for a stop loss given per mille
SizeAt(stopLoss) == calculatePositionSize([stopLoss |-> N(stopLoss)]).size

\* stop losses, per mille, that the sizing is compared on
StopLosses == {5, 10, 20, 40}

\* C21: in one portfolio state, an opportunity with a larger stop loss (in
\* particular twice as large) never gets a larger size from
\* calculatePositionSize.
C21_SizingMonotonic ==
    /\ \A s1, s2 \in StopLosses : s1 <= s2 => ~Gt(SizeAt(s2), SizeAt(s1))
    /\ \A s \in StopLosses :
           (last.op = "calculatePositionSize" /\ last.arg = [stopLoss |-> N(s)]) =>
               /\ last.ret = SizeAt(s)
               /\ \A s2 \in StopLosses : s <= s2 => ~Gt(SizeAt(s2), last.ret)

\* a call whose size the risk cap decides: doubling the stop loss halves it
C21_Witness ==
    /\ last.op = "calculatePositionSize" /\ last.ok
    /\ last.arg = [stopLoss |-> N(10)]
    /\ last.ret = N(Mills(1000))
    /\ SizeAt(20) = N(Mills(500))

\* C22: on the portfolio of balance 1000 with the default limits, the
\* opportunity with the 0.5% stop loss gets a strictly larger size than the
\* one with the 2% stop loss.
C22_TighterStopLargerSize ==
    (/\ balance = N(Mills(startingBalance)) /\ dailyLoss = 0
     /\ last.op = "calculatePositionSize" /\ last.arg = [stopLoss |-> N(5)]) =>
        Gt(last.ret, SizeAt(20))

\* a position as the engine sizes and accepts it: its stop loss is set, its
\* value is within the risk cap maxLossPerTrade / stopLoss, and its quantity
\* at the entry price is its value
SizedAndAccepted(position) ==
    /\ IsNum(position.stopLoss) /\ position.stopLoss.v > 0
    /\ position.stopLoss.v <= maxStopLoss
    /\ position.value.v * position.stopLoss.v <= Mills(maxLossPerTrade) * 1000
    /\ IsNum(position.entryPrice) /\ IsNum(position.quantity)
    /\ position.quantity.v * position.entryPrice.v = position.value.v

\* C23: no close of a position that was sized and accepted by the engine
\* realizes a loss above maxLossPerTrade: a single closeTrade adds at most
\* maxLossPerTrade to dailyLoss.
C23_LossPerTradeCapped ==
    [][(/\ last'.op \in {"closeTrade", "completeTrade"} /\ last'.ok
        /\ SizedAndAccepted(JustClosed)) =>
           /\ dailyLoss' - dailyLoss <= Mills(maxLossPerTrade)
           /\ ~Lt(JustClosed.profit, N(0 - Mills(maxLossPerTrade)))]_vars

\* C24: getPortfolioRisk reports reserveIntact = true exactly when balance >=
\* startingBalance * reserveFund, and false in every state where the balance
\* is below that reserve.
C24_ReserveIntact ==
    last.op = "getPortfolioRisk" =>
        (last.ret.reserveIntact <=> Ge(balance, N(ReserveAmount)))

\* the band of e / t, for t > 0 and e >= 0: [0, 0.2), [0.2, 0.5), [0.5, 0.8)
\* and 0.8 and above
Band(e, t) ==
    CASE 0 <= 5 * e /\ 5 * e < t -> "LOW"
      [] t <= 5 * e /\ 2 * e < t -> "MEDIUM"
      [] t <= 2 * e /\ 5 * e < 4 * t -> "HIGH"
      [] 4 * t <= 5 * e -> "CRITICAL"

C26_TwentyPercentIsLow ==
    (/\ last.op = "getPortfolioRisk"
     /\ balance = N(Mills(startingBalance) - 2 * Mills(100))
     /\ Len(openPositions) = 2 /\ tradeHistory = <<>>) =>
        /\ last.ret.totalExposure = N(2 * Mills(100))
        /\ last.ret.openPositions = 2
        /\ last.ret.reserveIntact
        /\ last.ret.riskLevel = "LOW"

\* (trade.volatility || 0.1) * 200, in 1/1000 of a point
VolatilityRisk(trade) ==
    IF IsNum(trade.volatility) /\ trade.volatility.v # 0
    THEN trade.volatility.v * 200 ELSE 20000

\* C27: the riskScore is a capped sum of bounded parts: the position-size
\* ratio gives at most 30 points, the daily loss used at most 30, each open
\* position 4, the volatility estimate at most 20, and the total lies in
\* [0, 100] for every trade and portfolio state.
C27_RiskScoreBounded ==
    last.op = "validateTrade" =>
        /\ IsNum(PositionRisk(last.arg)) /\ PositionRisk(last.arg).v <= 30000
        /\ DailyLossRisk <= 30000
        /\ VolatilityRisk(last.arg) <= 20000
        /\ IsNum(last.ret.riskScore)
        /\ last.ret.riskScore.v >= 0 /\ last.ret.riskScore.v <= 100000
        /\ last.ret.riskScore.v =
               Min2(100000, PositionRisk(last.arg).v + DailyLossRisk
                            + 4000 * Len(openPositions) + VolatilityRisk(last.arg))

\* the product of the three rates of a snapshot, in 10^-9
CrossRate(marketData) == marketData.p1.v * marketData.p2.v * marketData.p3.v

\* C28: for three rates whose product is exactly 1 the detector reports
\* netProfit = -3 * fee, isProfitable = false and confidence 0, and
\* detectOpportunity returns MONITOR: fees alone never give a signal.
C28_FeesAloneNoSignal ==
    (last.op = "detectOpportunity" /\ CrossRate(last.arg) = 1000000000) =>
        /\ last.ret.arbitrage.netProfit = 0 - 3 * fees
        /\ ~last.ret.arbitrage.isProfitable
        /\ last.ret.arbitrage.confidence = 0
        /\ last.ret.opportunity.action = "MONITOR"
        /\ last.ret.opportunity.confidence = 0

\* a call on rates 1.25, 0.8 and 1: not parity, and the product is 1
C28_Witness ==
    /\ last.op = "detectOpportunity"
    /\ last.arg = [p1 |-> N(1250), p2 |-> N(800), p3 |-> N(1000)]
    /\ last.ret.opportunity.action = "MONITOR"

\* C29: actionability is a strict inequality: an opportunity whose netProfit
\* after fees equals profitThreshold is not actionable (MONITOR), and every
\* netProfit above the threshold is actionable (EXECUTE).
C29_StrictThreshold ==
    last.op = "detectOpportunity" =>
        LET netProfit == CrossRate(last.arg) - 1000000000 - 3 * fees
        IN /\ last.ret.opportunity.profit = netProfit
           /\ netProfit = profitThreshold =>
                  /\ ~last.ret.arbitrage.isProfitable
                  /\ last.ret.opportunity.action = "MONITOR"
           /\ netProfit > profitThreshold =>
                  /\ last.ret.arbitrage.isProfitable
                  /\ last.ret.opportunity.action = "EXECUTE"
           /\ netProfit < profitThreshold =>
                  last.ret.opportunity.action = "MONITOR"

\* a call whose netProfit is the threshold itself: 1.004 - 1 - 0.003 = 0.001
C29_Witness ==
    /\ last.op = "detectOpportunity"
    /\ last.ret.opportunity.profit = profitThreshold
    /\ last.ret.opportunity.action = "MONITOR"

\* x clamped to [lo, hi]
Clamp(x, lo, hi) == IF x < lo THEN lo ELSE IF x > hi THEN hi ELSE x

Malformed(marketData) ==
    \E r \in {marketData.p1, marketData.p2, marketData.p3} : IsNum(r) /\ r.v <= 0

\* C31: a snapshot with a zero or negative rate for one of the path's pairs
\* gives no actionable opportunity (never EXECUTE), while an absent pair is
\* read as the neutral rate 1.0.
C31_MalformedRejected ==
    last.op = "detectOpportunity" =>
        /\ Malformed(last.arg) => last.ret.opportunity.action # "EXECUTE"
        /\ last.arg.p1 = Undefined => extractPrices(last.arg).pair1 = 1000
        /\ last.arg.p2 = Undefined => extractPrices(last.arg).pair2 = 1000
        /\ last.arg.p3 = Undefined => extractPrices(last.arg).pair3 = 1000

\* C32: ArbitrageDetector.calculatePositionSize returns a value between 0
\* and maxPositionSize for every profit: 0 for a negative profit, never above
\* maxPositionSize, and no smaller than for any lower profit.
C32_DetectorSizeInRange ==
    last.op = "detector.calculatePositionSize" =>
        /\ last.ret >= 0 /\ last.ret <= detectorMaxPositionSize
        /\ last.arg < 0 => last.ret = 0
        /\ \A p \in PositionSizeProfits :
               p <= last.arg => detectorPositionSize(p) <= last.ret

\* the product of the three rates that scan reads from the feed, in 10^-9
FeedProduct ==
    FeedPrices(3)[1] * FeedPrices(3)[2] * FeedPrices(3)[3]

\* C33: scan returns a non-empty list only when the product of the three
\* rates of the price feed exceeds 1 by more than minProfit, and an empty
\* list whenever the product is at most 1.
C33_ScanOnlyProfitableCycles ==
    last.op = "scan" =>
        /\ last.ret # <<>> => FeedProduct - 1000000000 > last.arg.minProfit
        /\ FeedProduct <= 1000000000 => last.ret = <<>>

\* emergencyStop has liquidated a position at some earlier time: tradeHistory
\* keeps an emergency_closed entry, and no operation of the code restarts
\* trading
EmergencyStopped ==
    \E i \in 1..Len(tradeHistory) : tradeHistory[i].status = "emergency_closed"

\* C34: once emergencyStop has returned safeMode = true (called directly or
\* through TradingSystem.stop), no later executeTrade or runCycle opens a
\* position: openPositions stays empty.
C34_SafeModeHolds ==
    [][(EmergencyStopped /\ last'.op \in {"executeTrade", "runCycle"}) =>
          openPositions' = <<>>]_vars

\* C35: in every state, the trade that the decision cycle builds from an
\* allowed calculatePositionSize result (value = size, stopLoss = 1%) passes
\* validateTrade's position-size, daily-loss, reserve and stop-loss checks;
\* a cycle whose validation failed has failed on 'Too many open positions'
\* alone.
C35_SizedTradeValid ==
    LET positionCalc == calculatePositionSize(CycleOpportunity)
        validation == validateTrade(CycleTrade(positionCalc.size))
    IN /\ positionCalc.allowed =>
              \A i \in 1..Len(validation.errors) :
                  validation.errors[i] = "Too many open positions"
       /\ (last.op = "runCycle" /\ last.ret = "Trade validation failed") =>
              /\ positionCalc.allowed
              /\ validation.errors = <<"Too many open positions">>

\* a cycle has just sized a trade and seen it refused by validateTrade, on
\* the number of open positions only
C35_Witness ==
    /\ last.op = "runCycle" /\ last.ret = "Trade validation failed"
    /\ calculatePositionSize(CycleOpportunity).allowed
    /\ Gt(calculatePositionSize(CycleOpportunity).size, N(0))
    /\ validateTrade(CycleTrade(calculatePositionSize(CycleOpportunity).size)).errors
           = <<"Too many open positions">>

\* C36: emergencyStop (called directly or by TradingSystem.stop with
\* positions open) credits balance with 98% of the value of every open
\* position and leaves dailyLoss as it was: the 2% given up on each position
\* is not counted toward the daily loss limit.  Of the other fields it
\* changes openPositions and tradeHistory only.
C36_EmergencyStopFrame ==
    [][(last'.op = "emergencyStop" \/ (last'.op = "stop" /\ Len(openPositions) > 0)) =>
          LET total == SumOver(openPositions, "open", "value")
          IN /\ dailyLoss' = dailyLoss
             /\ DailyLossLimitReached' = DailyLossLimitReached
             /\ balance' = Add(balance, MulFrac(total, emergencyFill))
             /\ last'.op = "emergencyStop" =>
                    UNCHANGED <<sysTradeHistory, timers, isRunning, cycle, priceFeed>>]_vars

\* emergencyStop has just liquidated a position on a day that already
\* carries a booked loss of $5: the loss is still $5
C36_Witness ==
    /\ last.op = "emergencyStop" /\ last.ret = 1
    /\ dailyLoss = Mills(5)
    /\ tradeHistory # <<>>
    /\ tradeHistory[Len(tradeHistory)].status = "emergency_closed"

====
